---- MODULE Spec2Model ----
(***************************************************************************)
(* Mira (src/mira/_mira_.py): the scanner WebScanner, with the work queue,  *)
(* result list, lock and pool of daemon workers of its subdomain scan and  *)
(* the single fetch of its directory scan, and the command line front end  *)
(* main().                                                                 *)
(*                                                                         *)
(* Text is a sequence of one-character strings, so that the regular        *)
(* expression, startswith, replace and strip are computed on characters.   *)
(* A Python list object is a cell of `heap`; a variable that holds a list  *)
(* holds the cell's index, so that two names of one list stay one list.    *)
(***************************************************************************)
EXTENDS Integers, Sequences, FiniteSets, TLC

\* ------------------------------------------------------------------ bounds
\* Longest wordlist file, in lines.
MaxWords == 2
\* Number of calls of scan_subdomains a client makes on one scanner.
MaxCalls == 2

\* Most anchors on the page scan_directories fetches.
MaxLinks == 2
\* Number of calls of scan_directories a client makes on one scanner.
MaxDirCalls == 2

\* range(10): the size of the worker pool of one scan.
NumWorkers == 10

\* ------------------------------------------------------------------ text
HTTP == <<"h", "t", "t", "p", ":", "/", "/">>
HTTPS == <<"h", "t", "t", "p", "s", ":", "/", "/">>

Whitespace == {" ", "\n"}

RECURSIVE LStrip(_)
LStrip(s) ==
    IF s # <<>> /\ Head(s) \in Whitespace THEN LStrip(Tail(s)) ELSE s

RECURSIVE RStrip(_)
RStrip(s) ==
    IF s # <<>> /\ s[Len(s)] \in Whitespace
    THEN RStrip(SubSeq(s, 1, Len(s) - 1))
    ELSE s

\* str.strip()
Strip(s) == RStrip(LStrip(s))

Last(s) == s[Len(s)]

StartsWith(s, p) == Len(s) >= Len(p) /\ SubSeq(s, 1, Len(p)) = p

\* str.replace(old, ''): every non-overlapping occurrence, left to right.
RECURSIVE Remove(_, _)
Remove(s, old) ==
    IF Len(s) < Len(old) THEN s
    ELSE IF StartsWith(s, old)
         THEN Remove(SubSeq(s, Len(old) + 1, Len(s)), old)
         ELSE <<Head(s)>> \o Remove(Tail(s), old)

strip_protocol(url) == Remove(Remove(url, HTTP), HTTPS)

\* ------------------------------------------------------------------ the pattern
\* ^(https?://)?(www\.)?([a-zA-Z0-9-]+(\.[a-zA-Z]{2,})+)$
\* Each operator is the set of positions of s (characters consumed) at which
\* the pattern so far can end, so that the whole is every way of matching.
Lower == {"a", "b", "c", "d", "e", "f", "g", "h", "i", "j", "k", "l", "m",
          "n", "o", "p", "q", "r", "s", "t", "u", "v", "w", "x", "y", "z"}
Upper == {"A", "B", "C", "D", "E", "F", "G", "H", "I", "J", "K", "L", "M",
          "N", "O", "P", "Q", "R", "S", "T", "U", "V", "W", "X", "Y", "Z"}
Digit == {"0", "1", "2", "3", "4", "5", "6", "7", "8", "9"}
Alpha == Lower \cup Upper
LabelChar == Alpha \cup Digit \cup {"-"}
WWW == <<"w", "w", "w", ".">>

\* (https?://)?
AfterScheme(s) ==
    {0} \cup {Len(p) : p \in {p \in {HTTP, HTTPS} : StartsWith(s, p)}}

\* (www\.)?
AfterWww(s) ==
    AfterScheme(s) \cup
        {p + Len(WWW) : p \in {p \in AfterScheme(s) :
            /\ p + Len(WWW) <= Len(s)
            /\ SubSeq(s, p + 1, p + Len(WWW)) = WWW}}

\* [a-zA-Z0-9-]+
AfterLabel(s) ==
    {e \in 1 .. Len(s) : \E p \in AfterWww(s) :
        p < e /\ \A j \in (p + 1) .. e : s[j] \in LabelChar}

\* \.[a-zA-Z]{2,} once, from a position of P
AfterSuffix(s, P) ==
    {e \in 1 .. Len(s) : \E p \in P :
        /\ e >= p + 3
        /\ s[p + 1] = "."
        /\ \A j \in (p + 2) .. e : s[j] \in Alpha}

\* (\.[a-zA-Z]{2,})+
RECURSIVE AfterSuffixes(_, _)
AfterSuffixes(s, P) ==
    LET more == P \cup AfterSuffix(s, P)
    IN  IF more = P THEN P ELSE AfterSuffixes(s, more)

\* $ holds at the end of s and before a newline that ends s.
AtEnd(s, e) == e = Len(s) \/ (e = Len(s) - 1 /\ s[Len(s)] = "\n")

\* pattern.match(s): the ends of the matches of s, none when s does not match.
PatternMatch(s) ==
    {e \in AfterSuffixes(s, AfterSuffix(s, AfterLabel(s))) : AtEnd(s, e)}

\* match.group(0)
Group0(s) == SubSeq(s, 1, CHOOSE e \in PatternMatch(s) : TRUE)

\* ------------------------------------------------------------------ URLs
\* urllib.parse on http and https URLs, for a base that is a scheme and a
\* host with at most the path "/" (what the pattern lets through), and
\* references without dot segments.
HasScheme(u) == StartsWith(u, HTTP) \/ StartsWith(u, HTTPS)
Scheme(u) ==
    IF StartsWith(u, HTTPS) THEN <<"h", "t", "t", "p", "s">> ELSE <<"h", "t", "t", "p">>

\* The first position of s from p on that holds a character of S, or Len(s) + 1.
RECURSIVE Find(_, _, _)
Find(s, p, S) == IF p > Len(s) \/ s[p] \in S THEN p ELSE Find(s, p + 1, S)

\* The netloc of an absolute URL ends before the first of / ? #.
NetlocEnd(u) == Find(u, Len(Scheme(u)) + 4, {"/", "?", "#"}) - 1

\* scheme://netloc
Origin(u) == SubSeq(u, 1, NetlocEnd(u))

\* urlparse(u).path of an absolute URL: from the netloc to the first of ? #.
UrlPath(u) == SubSeq(u, NetlocEnd(u) + 1, Find(u, NetlocEnd(u) + 1, {"?", "#"}) - 1)

\* urljoin(base, url)
urljoin(base, url) ==
    IF url = <<>> THEN base
    ELSE IF HasScheme(url) THEN url
    ELSE IF StartsWith(url, <<"/", "/">>) THEN Scheme(base) \o <<":">> \o url
    ELSE IF Head(url) = "/" THEN Origin(base) \o url
    ELSE IF Head(url) \in {"?", "#"} THEN base \o url
    ELSE Origin(base) \o <<"/">> \o url

\* str.endswith('/')
EndsWithSlash(s) == s # <<>> /\ Last(s) = "/"

\* ------------------------------------------------------------------ state
VARIABLES
    \* main()
    args,            \* the parsed command line (args.target, flags, wordlist)
    mpc,             \* where main() is
    target,          \* main's local `target`
    out,             \* the lines printed by main()
    ran,             \* the modes main() has entered, in order
    \* WebScanner, the object
    self_target,     \* self.target
    self_Target,     \* self.Target
    wordfile,        \* the file at self.wordlist: its lines, or Unreadable
    heap,            \* the list objects created so far
    results,         \* self.results: the index of a list in heap
    \* scan_subdomains, the call in progress
    calls,           \* the number of calls of scan_subdomains begun
    opc,             \* where the calling thread is in scan_subdomains
    fpos,            \* the lines of the file read so far
    t,               \* the loop variable of `for t in range(10)`
    q,               \* q[k]: the items of the Queue created by call k
    unfinished_tasks,\* unfinished_tasks[k]: that Queue's counter
    list_lock,       \* list_lock[k]: the holder of the Lock created by call k
    \* the worker threads
    wpc,             \* wpc[w]: where worker w is in scan()
    wsub,            \* wsub[w]: the item worker w took last
    \* the record of what happened
    \* (of the call in progress: [k][i] is line i of the queue of call k)
    dequeued,        \* dequeued[k][i]: how often q.get() handed the line out
    marked,          \* marked[k][i]: the task_done calls made for it
    outcome,         \* outcome[k][i]: how its probe ended
    held,            \* the lists the callers got back, in order
    \* scan_directories, the call in progress
    dcalls,          \* the number of calls of scan_directories begun
    dpc,             \* where the calling thread is in scan_directories
    response,        \* what requests.get brought: its kind and the page's hrefs
    lpos,            \* the links of the page gone through so far
    directories,     \* the local set `directories`
    dir_iter,        \* what `for dir in directories` has yet to visit
    \* the process
    daemon,          \* daemon[w]: the daemon flag of the thread of worker w
    exited           \* the interpreter has shut down

mainvars == <<args, mpc, target, out, ran>>
objvars == <<self_target, self_Target, wordfile>>
scanvars == <<heap, results, calls, opc, fpos, t, q, unfinished_tasks, list_lock>>
workervars == <<wpc, wsub>>
histvars == <<dequeued, marked, outcome, held>>
dirvars == <<dcalls, dpc, response, lpos, directories, dir_iter>>
procvars == <<daemon, exited>>
vars == <<mainvars, objvars, scanvars, workervars, histvars, dirvars, procvars>>

Unreadable == [readable |-> FALSE, lines |-> <<>>]
NoItem == [call |-> 0, slot |-> 0, sub |-> <<>>]
Free == 0

Calls == 1 .. MaxCalls
\* The lines of the longest wordlist: a file of WordFiles, or PoolFile.
Slots == 1 .. (IF MaxWords > NumWorkers + 1 THEN MaxWords ELSE NumWorkers + 1)
Workers == 1 .. (NumWorkers * MaxCalls)

\* The call whose loop started worker w, and the worker started by step i of
\* the loop of call k.
CallOf(w) == ((w - 1) \div NumWorkers) + 1
WorkerId(k, i) == (k - 1) * NumWorkers + i + 1

\* ------------------------------------------------------------------ inputs
\* The wordlist files: n labels, one per line with blanks around them, with
\* or without an empty last line; and the file that cannot be opened.
LabelLine(i) == IF i % 2 = 1 THEN <<" ", "w", "\n">> ELSE <<"m", " ", "\n">>
BlankLine == <<"\n">>
LabelLines(n) == [i \in 1 .. n |-> LabelLine(i)]

WordFiles ==
    {[readable |-> TRUE, lines |-> LabelLines(n)] : n \in 0 .. MaxWords}
        \cup {[readable |-> TRUE, lines |-> Append(LabelLines(n - 1), BlankLine)] :
                 n \in 1 .. MaxWords}
        \cup {Unreadable}

\* A wordlist longer than the pool: one blank line for each worker, then a
\* label.
PoolFile ==
    [readable |-> TRUE,
     lines |-> [i \in 1 .. (NumWorkers + 1) |->
                   IF i <= NumWorkers THEN BlankLine ELSE LabelLine(1)]]

ScanHost == <<"a", ".", "i", "o">>
ScanTargets == {HTTPS \o ScanHost}

\* ------------------------------------------------------------------ WebScanner
\* WebScanner.__init__: self.results = [] is the first list object.
WebScannerInit(tg) ==
    /\ self_target' = tg
    /\ self_Target' = strip_protocol(tg)
    /\ heap' = <<<<>>>>
    /\ results' = 1

\* url = f"http://{subdomain}.{self.Target}"
Url(sub) == HTTP \o sub \o <<".">> \o self_Target

\* requests.get(url): a response ("ok"), requests.ConnectionError ("fail"),
\* or any other exception ("error": InvalidURL, TooManyRedirects, ...).
\* A host that begins with a dot gets no response: it is refused as an
\* invalid URL before any connection is made, or it fails to resolve.
ProbeOutcomes(url) ==
    IF url[Len(HTTP) + 1] = "." THEN {"fail", "error"} ELSE {"ok", "fail", "error"}

\* The Queue and the Lock a worker of call k closes over: the locals q and
\* list_lock of that call (self.q and self.list_lock are not used).
\* (ScanQueueShared: one queue for all the calls, as self.q would be.)
ScanQueueShared(k) == 1
ScanQueue(k) == k
ScanLock(k) == k

\* print(...): one more line of output
print(msg, arg) == out' = Append(out, [msg |-> msg, arg |-> arg])

\* self.results.clear(); print(f"Performing subdomain scan on {self.Target}...")
ScanClear ==
    /\ opc = "clear"
    /\ heap' = [heap EXCEPT ![results] = <<>>]
    /\ print("Performing subdomain scan on", self_Target)
    /\ opc' = "fresh"
    /\ UNCHANGED <<results, calls, fpos, t, q, unfinished_tasks, list_lock>>
    /\ UNCHANGED <<args, mpc, target, ran, objvars, dirvars, procvars, workervars, histvars>>

\* The record of the queues is kept for the call in progress: it starts
\* empty with the call's fresh queue.
NoneYet(v) == [k \in Calls |-> [i \in Slots |-> v]]

\* q = Queue(); self.results = []; list_lock = Lock()
ScanFresh ==
    /\ opc = "fresh"
    /\ q' = [q EXCEPT ![calls] = <<>>]
    /\ unfinished_tasks' = [unfinished_tasks EXCEPT ![calls] = 0]
    /\ heap' = Append(heap, <<>>)
    /\ results' = Len(heap) + 1
    /\ list_lock' = [list_lock EXCEPT ![calls] = Free]
    /\ opc' = "open"
    /\ dequeued' = NoneYet(0)
    /\ marked' = NoneYet(0)
    /\ outcome' = NoneYet("none")
    /\ UNCHANGED <<calls, fpos, t, held>>
    /\ UNCHANGED <<mainvars, objvars, dirvars, procvars, workervars>>

\* with open(self.wordlist, 'r') as f: the open succeeds or raises.
\* (ScanOpenIgnore: a file that cannot be opened is read as an empty one.)
ScanOpenIgnore ==
    /\ opc = "open"
    /\ opc' = "put"
    /\ fpos' = 0
    /\ UNCHANGED <<heap, results, calls, t, q, unfinished_tasks, list_lock>>
    /\ UNCHANGED <<mainvars, objvars, dirvars, procvars, workervars, histvars>>

ScanOpen ==
    /\ opc = "open"
    /\ opc' = IF wordfile.readable THEN "put" ELSE "raised"
    /\ fpos' = 0
    /\ UNCHANGED <<heap, results, calls, t, q, unfinished_tasks, list_lock>>
    /\ UNCHANGED <<mainvars, objvars, dirvars, procvars, workervars, histvars>>

\* Queue.put(item)
QPut(k, item) ==
    /\ q' = [q EXCEPT ![k] = Append(@, item)]
    /\ unfinished_tasks' = [unfinished_tasks EXCEPT ![k] = @ + 1]

\* for subdomain in f: q.put(subdomain.strip())
ScanPut ==
    /\ opc = "put"
    /\ IF fpos < Len(wordfile.lines)
       THEN /\ QPut(ScanQueue(calls),
                    [call |-> calls, slot |-> fpos + 1,
                     sub |-> Strip(wordfile.lines[fpos + 1])])
            /\ fpos' = fpos + 1
            /\ UNCHANGED <<opc, t>>
       ELSE /\ opc' = "spawn"
            /\ t' = 0
            /\ UNCHANGED <<q, unfinished_tasks, fpos>>
    /\ UNCHANGED <<heap, results, calls, list_lock>>
    /\ UNCHANGED <<mainvars, objvars, dirvars, procvars, workervars, histvars>>

\* for t in range(10): worker = Thread(target=scan); worker.daemon = True;
\* worker.start()
\* (ScanSpawnPerLine: one thread for each line of the wordlist.)
ScanSpawnPerLine ==
    /\ opc = "spawn"
    /\ IF t < Len(wordfile.lines)
       THEN /\ wpc' = [wpc EXCEPT ![WorkerId(calls, t)] = "get"]
            /\ daemon' = [daemon EXCEPT ![WorkerId(calls, t)] = TRUE]
            /\ t' = t + 1
            /\ UNCHANGED opc
       ELSE /\ opc' = "join"
            /\ UNCHANGED <<wpc, t, daemon>>
    /\ UNCHANGED <<heap, results, calls, fpos, q, unfinished_tasks, list_lock, wsub>>
    /\ UNCHANGED <<mainvars, objvars, dirvars, exited, histvars>>

\* (ScanSpawnNonDaemon: the threads are started without the daemon flag.)
ScanSpawnNonDaemon ==
    /\ opc = "spawn"
    /\ IF t < NumWorkers
       THEN /\ wpc' = [wpc EXCEPT ![WorkerId(calls, t)] = "get"]
            /\ t' = t + 1
            /\ UNCHANGED opc
       ELSE /\ opc' = "join"
            /\ UNCHANGED <<wpc, t>>
    /\ UNCHANGED <<heap, results, calls, fpos, q, unfinished_tasks, list_lock, wsub>>
    /\ UNCHANGED <<mainvars, objvars, dirvars, procvars, histvars>>

ScanSpawn ==
    /\ opc = "spawn"
    /\ IF t < NumWorkers
       THEN /\ wpc' = [wpc EXCEPT ![WorkerId(calls, t)] = "get"]
            /\ daemon' = [daemon EXCEPT ![WorkerId(calls, t)] = TRUE]
            /\ t' = t + 1
            /\ UNCHANGED opc
       ELSE /\ opc' = "join"
            /\ UNCHANGED <<wpc, t, daemon>>
    /\ UNCHANGED <<heap, results, calls, fpos, q, unfinished_tasks, list_lock, wsub>>
    /\ UNCHANGED <<mainvars, objvars, dirvars, exited, histvars>>

\* Queue.join() returns when the counter of unfinished tasks is zero.
\* (JoinReadyEmpty: when the queue is empty.)
JoinReadyEmpty(k) == q[k] = <<>>
JoinReady(k) == unfinished_tasks[k] = 0

\* q.join()
\* (ScanJoinNoWait: the scan goes on to its return without the wait.)
ScanJoinNoWait ==
    /\ opc = "join"
    /\ opc' = "return"
    /\ UNCHANGED <<heap, results, calls, fpos, t, q, unfinished_tasks, list_lock>>
    /\ UNCHANGED <<mainvars, objvars, dirvars, procvars, workervars, histvars>>

ScanJoin ==
    /\ opc = "join"
    /\ JoinReady(ScanQueue(calls))
    /\ opc' = "return"
    /\ UNCHANGED <<heap, results, calls, fpos, t, q, unfinished_tasks, list_lock>>
    /\ UNCHANGED <<mainvars, objvars, dirvars, procvars, workervars, histvars>>

\* return self.results
ScanReturn ==
    /\ opc = "return"
    /\ opc' = "returned"
    /\ held' = Append(held, results)
    /\ UNCHANGED <<heap, results, calls, fpos, t, q, unfinished_tasks, list_lock>>
    /\ UNCHANGED <<mainvars, objvars, dirvars, procvars, workervars, dequeued, marked, outcome>>

\* ------------------------------------------------------------------ scan()
\* Where a worker is between q.get() and q.task_done().
InFlight == {"probe", "lock", "append", "task_done"}

\* subdomain = q.get(): blocks while the queue is empty.
\* (WorkerGetPeek: the head is read and left on the queue.)
WorkerGetPeek(w) ==
    LET k == ScanQueue(CallOf(w))
    IN  /\ wpc[w] = "get"
        /\ q[k] # <<>>
        /\ wsub' = [wsub EXCEPT ![w] = Head(q[k])]
        /\ wpc' = [wpc EXCEPT ![w] = "probe"]
        /\ dequeued' = [dequeued EXCEPT ![k][Head(q[k]).slot] = @ + 1]
        /\ UNCHANGED <<heap, results, calls, opc, fpos, t, q, unfinished_tasks, list_lock>>
        /\ UNCHANGED <<mainvars, objvars, dirvars, procvars, marked, outcome, held>>

WorkerGet(w) ==
    LET k == ScanQueue(CallOf(w))
    IN  /\ wpc[w] = "get"
        /\ q[k] # <<>>
        /\ wsub' = [wsub EXCEPT ![w] = Head(q[k])]
        /\ q' = [q EXCEPT ![k] = Tail(@)]
        /\ wpc' = [wpc EXCEPT ![w] = "probe"]
        /\ dequeued' = [dequeued EXCEPT ![k][Head(q[k]).slot] = @ + 1]
        /\ UNCHANGED <<heap, results, calls, opc, fpos, t, unfinished_tasks, list_lock>>
        /\ UNCHANGED <<mainvars, objvars, dirvars, procvars, marked, outcome, held>>

\* try: requests.get(url) / except requests.ConnectionError: pass / else: ...
\* Any other exception leaves scan() and ends the thread.
WorkerProbe(w) ==
    /\ wpc[w] = "probe"
    /\ \E o \in ProbeOutcomes(Url(wsub[w].sub)) :
        /\ wpc' = [wpc EXCEPT ![w] = CASE o = "ok" -> "lock"
                                       [] o = "fail" -> "task_done"
                                       [] o = "error" -> "dead"]
        /\ outcome' = [outcome EXCEPT ![ScanQueue(CallOf(w))][wsub[w].slot] = o]
        /\ wsub' = [wsub EXCEPT ![w] = IF o = "error" THEN NoItem ELSE @]
    /\ UNCHANGED <<dequeued, marked, held>>
    /\ UNCHANGED <<mainvars, objvars, dirvars, procvars, scanvars>>

\* with list_lock: (acquire)
\* (WorkerAcquireNoWait: the block is entered whether the lock is free or not.)
WorkerAcquireNoWait(w) ==
    LET k == ScanLock(CallOf(w))
    IN  /\ wpc[w] = "lock"
        /\ list_lock' = [list_lock EXCEPT ![k] = w]
        /\ wpc' = [wpc EXCEPT ![w] = "append"]
        /\ UNCHANGED <<heap, results, calls, opc, fpos, t, q, unfinished_tasks>>
        /\ UNCHANGED <<mainvars, objvars, dirvars, procvars, wsub, histvars>>

WorkerAcquire(w) ==
    LET k == ScanLock(CallOf(w))
    IN  /\ wpc[w] = "lock"
        /\ list_lock[k] = Free
        /\ list_lock' = [list_lock EXCEPT ![k] = w]
        /\ wpc' = [wpc EXCEPT ![w] = "append"]
        /\ UNCHANGED <<heap, results, calls, opc, fpos, t, q, unfinished_tasks>>
        /\ UNCHANGED <<mainvars, objvars, dirvars, procvars, wsub, histvars>>

\* list.append(x)
\* (ListAppendLost: an append that loses what the list held.)
ListAppendLost(l, x) == heap' = [heap EXCEPT ![l] = <<x>>]
ListAppend(l, x) == heap' = [heap EXCEPT ![l] = Append(@, x)]

\* self.results.append(url), then the release that ends the with block.
WorkerAppend(w) ==
    LET k == ScanLock(CallOf(w))
    IN  /\ wpc[w] = "append"
        /\ ListAppend(results, [url |-> Url(wsub[w].sub),
                                call |-> wsub[w].call, slot |-> wsub[w].slot])
        /\ list_lock' = [list_lock EXCEPT ![k] = Free]
        /\ wpc' = [wpc EXCEPT ![w] = "task_done"]
        /\ UNCHANGED <<results, calls, opc, fpos, t, q, unfinished_tasks>>
        /\ UNCHANGED <<mainvars, objvars, dirvars, procvars, wsub, histvars>>

\* q.task_done(); the local `subdomain` is not read again before the next
\* q.get() sets it.
\* (WorkerTaskDoneSkip: the loop goes on without task_done.)
WorkerTaskDoneSkip(w) ==
    /\ wpc[w] = "task_done"
    /\ wpc' = [wpc EXCEPT ![w] = "get"]
    /\ wsub' = [wsub EXCEPT ![w] = NoItem]
    /\ UNCHANGED <<mainvars, objvars, dirvars, procvars, scanvars, histvars>>

WorkerTaskDone(w) ==
    LET k == ScanQueue(CallOf(w))
    IN  /\ wpc[w] = "task_done"
        /\ unfinished_tasks' = [unfinished_tasks EXCEPT ![k] = @ - 1]
        /\ wpc' = [wpc EXCEPT ![w] = "get"]
        /\ marked' = [marked EXCEPT ![k][wsub[w].slot] = @ + 1]
        /\ wsub' = [wsub EXCEPT ![w] = NoItem]
        /\ UNCHANGED <<heap, results, calls, opc, fpos, t, q, list_lock>>
        /\ UNCHANGED <<mainvars, objvars, dirvars, procvars, dequeued, outcome, held>>

Worker(w) ==
    \/ WorkerGet(w)
    \/ WorkerProbe(w)
    \/ WorkerAcquire(w)
    \/ WorkerAppend(w)
    \/ WorkerTaskDone(w)

Scan ==
    \/ ScanClear
    \/ ScanFresh
    \/ ScanOpen
    \/ ScanPut
    \/ ScanSpawn
    \/ ScanJoin
    \/ ScanReturn

\* ------------------------------------------------------------------ scan_directories
\* The hrefs of the anchors of a page: a directory of the site, a file of the
\* site, a directory of another site, and an anchor without href.
Hrefs ==
    { <<"/", "a", "/">>,
      <<"/", "b">>,
      <<"h", "t", "t", "p", ":", "/", "/", "o", ".", "i", "o", "/", "c", "/">>,
      <<>> }

\* soup.find_all('a'): the anchors of the page, in document order.
Pages == UNION {[1 .. n -> Hrefs] : n \in 0 .. MaxLinks}

\* requests.exceptions.RequestException: what requests.get(..., timeout=5)
\* and raise_for_status() raise.
ErrorKinds == {"ConnectionError", "Timeout", "HTTPError"}

NoResponse == [kind |-> "none", links |-> <<>>]
Responses ==
    {[kind |-> "ok", links |-> p] : p \in Pages}
        \cup {[kind |-> e, links |-> <<>>] : e \in ErrorKinds}

\* What requests.get(url, timeout=5) can bring for url: a URL without scheme
\* is refused before any connection (MissingSchema, a RequestException too).
ResponsesFor(url) ==
    IF HasScheme(url) THEN Responses ELSE {[kind |-> "MissingSchema", links |-> <<>>]}

\* An element of self.results put there by scan_directories.
DirEntry(url) == [url |-> url, call |-> 0, slot |-> 0]

\* print(...); try: response = requests.get(self.target, timeout=5);
\* response.raise_for_status() / except RequestException: print, return
\* self.results. Then soup = BeautifulSoup(...); directories = set().
DirGet ==
    /\ dpc = "get"
    /\ \E r \in ResponsesFor(self_target) :
        /\ response' = r
        /\ IF r.kind = "ok"
           THEN /\ out' = Append(out, [msg |-> "Performing directory scan on",
                                       arg |-> self_target])
                /\ dpc' = "links"
           ELSE /\ out' = out \o <<[msg |-> "Performing directory scan on",
                                     arg |-> self_target],
                                    [msg |-> "[!] Error accessing",
                                     arg |-> self_target]>>
                /\ dpc' = "return"
    /\ lpos' = 0
    /\ directories' = {}
    /\ dir_iter' = {}
    /\ UNCHANGED <<args, mpc, target, ran, objvars, scanvars, workervars, histvars>>
    /\ UNCHANGED <<dcalls, procvars>>

\* for link in soup.find_all('a'): url = link.get('href'); if url: full_url =
\* urljoin(self.target, url); if urlparse(full_url).path.endswith('/'):
\* directories.add(full_url). (No href of Hrefs makes urljoin raise, so the
\* except branch around the loop is not taken.)
DirLink ==
    /\ dpc = "links"
    /\ IF lpos < Len(response.links)
       THEN LET url == response.links[lpos + 1]
                full_url == urljoin(self_target, url)
            IN  /\ directories' =
                      IF url # <<>> /\ EndsWithSlash(UrlPath(full_url))
                      THEN directories \cup {full_url}
                      ELSE directories
                /\ lpos' = lpos + 1
                /\ UNCHANGED <<dpc, dir_iter>>
       ELSE /\ dpc' = "append"
            /\ dir_iter' = directories
            /\ UNCHANGED <<lpos, directories>>
    /\ UNCHANGED <<mainvars, objvars, scanvars, workervars, histvars>>
    /\ UNCHANGED <<dcalls, response, procvars>>

\* for dir in directories: self.results.append(dir), in the order the set
\* gives its elements, which is any order.
DirAppend ==
    /\ dpc = "append"
    /\ IF dir_iter # {}
       THEN /\ \E dir \in dir_iter :
                /\ ListAppend(results, DirEntry(dir))
                /\ dir_iter' = dir_iter \ {dir}
            /\ UNCHANGED dpc
       ELSE /\ dpc' = "return"
            /\ UNCHANGED <<heap, dir_iter>>
    /\ UNCHANGED <<results, calls, opc, fpos, t, q, unfinished_tasks, list_lock>>
    /\ UNCHANGED <<mainvars, objvars, workervars, histvars>>
    /\ UNCHANGED <<dcalls, response, lpos, directories, procvars>>

\* return self.results
DirReturn ==
    /\ dpc = "return"
    /\ dpc' = "returned"
    /\ held' = Append(held, results)
    /\ UNCHANGED <<mainvars, objvars, scanvars, workervars>>
    /\ UNCHANGED <<dequeued, marked, outcome>>
    /\ UNCHANGED <<dcalls, response, lpos, directories, dir_iter, procvars>>

Dir ==
    \/ DirGet
    \/ DirLink
    \/ DirAppend
    \/ DirReturn

\* ------------------------------------------------------------------ a client
\* A caller that owns one scanner and calls scan_subdomains on it, one call
\* after the other (as main() does once, at `scanner.scan_subdomains()`).
ClientCall ==
    /\ mpc = "client"
    /\ opc = "idle"
    /\ dpc = "idle"
    /\ calls < MaxCalls
    /\ calls' = calls + 1
    /\ opc' = "clear"
    /\ UNCHANGED <<heap, results, fpos, t, q, unfinished_tasks, list_lock>>
    /\ UNCHANGED <<mainvars, objvars, dirvars, procvars, workervars, histvars>>

\* The call is over: its value was returned, or its exception was caught.
ClientResume ==
    /\ mpc = "client"
    /\ opc \in {"returned", "raised"}
    /\ opc' = "idle"
    /\ UNCHANGED <<heap, results, calls, fpos, t, q, unfinished_tasks, list_lock>>
    /\ UNCHANGED <<mainvars, objvars, dirvars, procvars, workervars, histvars>>

\* The same caller calls scan_directories on the scanner.
ClientDirCall ==
    /\ mpc = "client"
    /\ opc = "idle"
    /\ dpc = "idle"
    /\ dcalls < MaxDirCalls
    /\ dcalls' = dcalls + 1
    /\ dpc' = "get"
    /\ UNCHANGED <<mainvars, objvars, scanvars, workervars, histvars>>
    /\ UNCHANGED <<response, lpos, directories, dir_iter, procvars>>

\* The call is over; its locals are gone.
ClientDirResume ==
    /\ mpc = "client"
    /\ dpc = "returned"
    /\ dpc' = "idle"
    /\ response' = NoResponse
    /\ lpos' = 0
    /\ directories' = {}
    /\ dir_iter' = {}
    /\ UNCHANGED <<mainvars, objvars, scanvars, workervars, histvars>>
    /\ UNCHANGED <<dcalls, procvars>>

\* ------------------------------------------------------------------ main()
Modes == {"basic_info", "port_scan", "dir_scan", "sub_scan", "tech_scan"}
NoArgs == [target |-> <<>>, flags |-> {}]
H4 == <<"h", "t", "t", "p">>

\* if args.target: ... the match, the scheme put in front, or the error.
\* (MainValidateNoReturn: the error branches without their return.)
MainValidateNoReturn ==
    /\ mpc = "start"
    /\ IF PatternMatch(args.target) # {}
       THEN /\ target' = IF StartsWith(Group0(args.target), H4)
                         THEN Group0(args.target)
                         ELSE HTTP \o Group0(args.target)
            /\ UNCHANGED out
       ELSE /\ print("Invalid URL. Please enter a valid URL.", <<>>)
            /\ UNCHANGED target
    /\ mpc' = "dispatch"
    /\ UNCHANGED <<args, ran, objvars, dirvars, procvars, scanvars, workervars, histvars>>

MainValidate ==
    /\ mpc = "start"
    /\ IF args.target = <<>>
       THEN /\ print("Please enter a target URL.", <<>>)
            /\ mpc' = "exit"
            /\ UNCHANGED target
       ELSE IF PatternMatch(args.target) # {}
       THEN /\ target' = IF StartsWith(Group0(args.target), H4)
                         THEN Group0(args.target)
                         ELSE HTTP \o Group0(args.target)
            /\ mpc' = "dispatch"
            /\ UNCHANGED out
       ELSE /\ print("Invalid URL. Please enter a valid URL.", <<>>)
            /\ mpc' = "exit"
            /\ UNCHANGED target
    /\ UNCHANGED <<args, ran, objvars, dirvars, procvars, scanvars, workervars, histvars>>

\* The mode the if/elif chain takes: the first flag set, in the chain's order.
Selected ==
    CASE "basic_info" \in args.flags -> "basic_info"
      [] "port_scan" \in args.flags -> "port_scan"
      [] "dir_scan" \in args.flags -> "dir_scan"
      [] "sub_scan" \in args.flags -> "sub_scan"
      [] "tech_scan" \in args.flags -> "tech_scan"
      [] OTHER -> "none"

\* if args.basic_info: the report of DomainInfo is printed; every failure of
\* the lookups is text inside the report.
MainBasicInfo ==
    /\ mpc = "dispatch"
    /\ Selected = "basic_info"
    /\ ran' = Append(ran, "basic_info")
    /\ print("info", target)
    /\ mpc' = "exit"
    /\ UNCHANGED <<args, target, objvars, dirvars, procvars, scanvars, workervars, histvars>>

\* elif args.port_scan: the lines of PortScanner.basic_scan, or its error.
MainPortScan ==
    /\ mpc = "dispatch"
    /\ Selected = "port_scan"
    /\ ran' = Append(ran, "port_scan")
    /\ \E failed \in BOOLEAN :
        out' = out \o <<[msg |-> "Performing basic port scan on",
                         arg |-> strip_protocol(target)]>>
                   \o (IF failed
                       THEN <<[msg |-> "An error occurred", arg |-> <<>>]>>
                       ELSE <<[msg |-> "Host", arg |-> strip_protocol(target)]>>)
    /\ mpc' = "exit"
    /\ UNCHANGED <<args, target, objvars, dirvars, procvars, scanvars, workervars, histvars>>

RECURSIVE PrintEach(_, _)
PrintEach(msg, l) ==
    IF l = <<>> THEN <<>>
    ELSE <<[msg |-> msg, arg |-> Head(l).url]>> \o PrintEach(msg, Tail(l))

\* elif args.dir_scan: scanner = WebScanner(target, args.wordlist);
\* scanner.scan_directories() is entered.
MainDirScan ==
    /\ mpc = "dispatch"
    /\ Selected = "dir_scan"
    /\ ran' = Append(ran, "dir_scan")
    /\ WebScannerInit(target)
    /\ dcalls' = dcalls + 1
    /\ dpc' = "get"
    /\ mpc' = "dir_scan"
    /\ UNCHANGED <<args, target, out, wordfile, calls, opc, fpos, t, q,
                   unfinished_tasks, list_lock, workervars, histvars>>
    /\ UNCHANGED <<response, lpos, directories, dir_iter, procvars>>

\* if directories: print("Directories found:") and each one / else: none found.
MainDirScanPrint ==
    /\ mpc = "dir_scan"
    /\ dpc = "returned"
    /\ out' = IF heap[Last(held)] # <<>>
              THEN out \o <<[msg |-> "Directories found:", arg |-> <<>>]>>
                       \o PrintEach("directory", heap[Last(held)])
              ELSE Append(out, [msg |-> "No directories found.", arg |-> <<>>])
    /\ dpc' = "idle"
    /\ mpc' = "exit"
    /\ UNCHANGED <<args, target, ran, objvars, scanvars, workervars, histvars>>
    /\ UNCHANGED <<dcalls, response, lpos, directories, dir_iter, procvars>>

\* elif args.sub_scan: scanner = WebScanner(target, args.wordlist);
\* scanner.scan_subdomains() is entered.
MainSubScan ==
    /\ mpc = "dispatch"
    /\ Selected = "sub_scan"
    /\ ran' = Append(ran, "sub_scan")
    /\ WebScannerInit(target)
    /\ calls' = calls + 1
    /\ opc' = "clear"
    /\ mpc' = "sub_scan"
    /\ UNCHANGED <<args, target, out, wordfile, fpos, t, q, unfinished_tasks,
                   list_lock, workervars, histvars, dirvars, procvars>>

\* if subdomains: print("Subdomains found:") and each one / else: none found.
MainSubScanPrint ==
    /\ mpc = "sub_scan"
    /\ opc = "returned"
    /\ out' = IF heap[Last(held)] # <<>>
              THEN out \o <<[msg |-> "Subdomains found:", arg |-> <<>>]>>
                       \o PrintEach("subdomain", heap[Last(held)])
              ELSE Append(out, [msg |-> "No subdomains found.", arg |-> <<>>])
    /\ opc' = "idle"
    /\ mpc' = "exit"
    /\ UNCHANGED <<heap, results, calls, fpos, t, q, unfinished_tasks, list_lock>>
    /\ UNCHANGED <<args, target, ran, objvars, dirvars, procvars, workervars, histvars>>

\* except Exception as e: print(f"An error occurred during subdomain scan: {e}")
MainSubScanExcept ==
    /\ mpc = "sub_scan"
    /\ opc = "raised"
    /\ print("An error occurred during subdomain scan", <<>>)
    /\ opc' = "idle"
    /\ mpc' = "exit"
    /\ UNCHANGED <<heap, results, calls, fpos, t, q, unfinished_tasks, list_lock>>
    /\ UNCHANGED <<args, target, ran, objvars, dirvars, procvars, workervars, histvars>>

\* elif args.tech_scan: WebsiteAnalyzer(target).analyze() prints its report.
\* (MainTechScanIf: `if` in the place of `elif`, so that the branch is also
\* taken after another one.)
MainTechScanIf ==
    /\ \/ mpc = "dispatch" /\ Selected = "tech_scan"
       \/ /\ mpc = "exit"
          /\ "tech_scan" \in args.flags
          /\ ran # <<>>
          /\ Last(ran) # "tech_scan"
    /\ ran' = Append(ran, "tech_scan")
    /\ print("Detected Software:", target)
    /\ mpc' = "exit"
    /\ UNCHANGED <<args, target, objvars, dirvars, procvars, scanvars, workervars, histvars>>

MainTechScan ==
    /\ mpc = "dispatch"
    /\ Selected = "tech_scan"
    /\ ran' = Append(ran, "tech_scan")
    /\ print("Detected Software:", target)
    /\ mpc' = "exit"
    /\ UNCHANGED <<args, target, objvars, dirvars, procvars, scanvars, workervars, histvars>>

\* No flag of the chain is set: main() ends.
MainNoMode ==
    /\ mpc = "dispatch"
    /\ Selected = "none"
    /\ mpc' = "exit"
    /\ UNCHANGED <<args, target, out, ran, objvars, dirvars, procvars, scanvars, workervars, histvars>>

\* The threads that keep the interpreter from shutting down once the main
\* thread is done: those alive that are not daemon threads.
NonDaemonAlive ==
    {w \in Workers : wpc[w] \notin {"unstarted", "dead"} /\ ~daemon[w]}

\* main() has returned: the interpreter waits for the non-daemon threads and
\* shuts down, daemon threads or not.
ProcessExit ==
    /\ mpc = "exit"
    /\ ~exited
    /\ NonDaemonAlive = {}
    /\ exited' = TRUE
    /\ UNCHANGED <<mainvars, objvars, scanvars, workervars, histvars, dirvars, daemon>>

Main ==
    \/ MainValidate
    \/ MainBasicInfo
    \/ MainPortScan
    \/ MainDirScan
    \/ MainDirScanPrint
    \/ MainSubScan
    \/ MainSubScanPrint
    \/ MainSubScanExcept
    \/ MainTechScan
    \/ MainNoMode

InitScanState ==
    /\ calls = 0
    /\ opc = "idle"
    /\ fpos = 0
    /\ t = 0
    /\ q = [k \in Calls |-> <<>>]
    /\ unfinished_tasks = [k \in Calls |-> 0]
    /\ list_lock = [k \in Calls |-> Free]
    /\ wpc = [w \in Workers |-> "unstarted"]
    /\ wsub = [w \in Workers |-> NoItem]
    /\ dequeued = NoneYet(0)
    /\ marked = NoneYet(0)
    /\ outcome = NoneYet("none")
    /\ held = <<>>
    /\ dcalls = 0
    /\ dpc = "idle"
    /\ response = NoResponse
    /\ lpos = 0
    /\ directories = {}
    /\ dir_iter = {}
    /\ daemon = [w \in Workers |-> FALSE]
    /\ exited = FALSE

\* A scanner just constructed by WebScanner(target, wordlist).
InitClient ==
    /\ args = NoArgs
    /\ mpc = "client"
    /\ target = <<>>
    /\ out = <<>>
    /\ ran = <<>>
    /\ self_target \in ScanTargets
    /\ self_Target = strip_protocol(self_target)
    /\ heap = <<<<>>>>
    /\ results = 1
    /\ InitScanState

Init == InitClient /\ wordfile \in WordFiles

\* The targets of the command lines: some that the pattern accepts (with and
\* without scheme and www., one with a newline at its end, one whose host
\* begins with http) and some that it refuses.
ArgTargets ==
    { <<"a", ".", "i", "o">>,
      <<"w", "w", "w", ".", "a", ".", "i", "o">>,
      <<"h", "t", "t", "p", ":", "/", "/", "a", ".", "i", "o">>,
      <<"h", "t", "t", "p", "s", ":", "/", "/", "w", "w", "w", ".", "a", "-", "1", ".", "b", "c", ".", "i", "o">>,
      <<"a", ".", "i", "o", "\n">>,
      <<"h", "t", "t", "p", ".", "i", "o">>,
      <<>>,
      <<"a", ".", "i">>,
      <<"a", ".", "i", "1">>,
      <<"a", " ", "b", ".", "i", "o">>,
      <<"a", ".", "i", "o", "/">>,
      <<"i", "o">>,
      <<"f", "t", "p", ":", "/", "/", "a", ".", "i", "o">>,
      <<"h", "t", "t", "p", ":", "/", "/">>,
      <<"h", "t", "t", "p", "s", ":", "/", "/", "a">>,
      <<"w", "w", "w", ".">>,
      <<"a", "-", "1", ".", "b", ".", "i", "o">>,
      <<"h", "t", "t", "p", ":", "/", "a", ".", "i", "o">> }

\* The wordlist files of the command line runs.
MainWordFiles == {f \in WordFiles : Len(f.lines) < MaxWords}

\* main() after parse_args(), with no scanner constructed yet.
InitMain ==
    /\ args \in [target : ArgTargets, flags : SUBSET Modes]
    /\ mpc = "start"
    /\ target = <<>>
    /\ out = <<>>
    /\ ran = <<>>
    /\ self_target = <<>>
    /\ self_Target = <<>>
    /\ wordfile \in MainWordFiles
    /\ heap = <<>>
    /\ results = 0
    /\ InitScanState

NextMain ==
    \/ Main
    \/ Dir
    \/ Scan
    \/ \E w \in Workers : Worker(w)
    \/ ProcessExit

SpecMain == InitMain /\ [][NextMain]_vars

Next ==
    \/ ClientCall
    \/ ClientResume
    \/ Scan
    \/ \E w \in Workers : Worker(w)

Spec == Init /\ [][Next]_vars

\* A client that calls both scan_directories and scan_subdomains on its
\* scanner, in any order; its wordlist has one line at most.
DirWordFiles == {f \in WordFiles : Len(f.lines) <= 1}

InitDir == Init /\ wordfile \in DirWordFiles

NextDir ==
    \/ ClientCall
    \/ ClientResume
    \/ ClientDirCall
    \/ ClientDirResume
    \/ Dir
    \/ Scan
    \/ \E w \in Workers : Worker(w)

DirSpec == InitDir /\ [][NextDir]_vars

\* One of the schedules the threads can have, on the wordlist longer than
\* the pool: the workers run while the caller waits in q.join(), one at a
\* time from q.get() to q.task_done(), and of the workers blocked in q.get()
\* the one started first is woken.
Turn(w) ==
    /\ opc = "join"
    /\ \A v \in Workers \ {w} : wpc[v] \notin InFlight
    /\ wpc[w] = "get" => \A v \in Workers : v < w => wpc[v] # "get" \/ CallOf(v) # CallOf(w)

InitSerial == InitClient /\ wordfile = PoolFile

NextSerial ==
    \/ ClientCall
    \/ ClientResume
    \/ Scan
    \/ \E w \in Workers : Turn(w) /\ Worker(w)

SerialSpec == InitSerial /\ [][NextSerial]_vars

\* The threads are scheduled fairly: the calling thread goes on while it is
\* inside scan_subdomains, and so does every worker. Here a probe under way
\* is taken to end (requests.get returns or raises).
FairSpec ==
    /\ Init
    /\ [][Next]_vars
    /\ WF_vars(Scan)
    /\ \A w \in Workers : WF_vars(Worker(w))

\* The steps of a worker that only the scheduler decides: all but the end of
\* requests.get(url), which is called without a timeout and so waits for the
\* remote host for as long as it takes.
WorkerLocal(w) ==
    \/ WorkerGet(w)
    \/ WorkerAcquire(w)
    \/ WorkerAppend(w)
    \/ WorkerTaskDone(w)

\* Fair scheduling of the threads, with nothing assumed of the remote hosts.
NoTimeoutSpec ==
    /\ Init
    /\ [][Next]_vars
    /\ WF_vars(Scan)
    /\ \A w \in Workers : WF_vars(WorkerLocal(w))

\* ------------------------------------------------------------------ properties
NumLines == Len(wordfile.lines)
Holders(k, i) ==
    {w \in Workers : wpc[w] \in InFlight /\ wsub[w].call = k /\ wsub[w].slot = i}
\* The positions of list r that hold the outcome of line i of call k.
Entries(r, k, i) == {j \in 1 .. Len(r) : r[j].call = k /\ r[j].slot = i}

SomeDead == \E w \in Workers : wpc[w] = "dead"

\* The targets of the command lines that pattern.match accepts.
AcceptedTargets == {tg \in ArgTargets : PatternMatch(tg) # {}}
Matches == args.target \in AcceptedTargets
Line(msg, arg) == [msg |-> msg, arg |-> arg]

\* C1: q.join() returns only when every line put on the queue has been
\* taken off it and marked done, so no item is queued and no probe is in
\* flight once the calling thread is past the join.
C1_JoinOnlyWhenDrained ==
    opc \in {"return", "returned"} =>
        /\ q[calls] = <<>>
        /\ \A i \in 1 .. NumLines : dequeued[calls][i] >= 1 /\ marked[calls][i] >= 1
        /\ \A w \in Workers : wpc[w] \notin InFlight

C1_Witness ==
    /\ opc = "return"
    /\ NumLines >= 2
    /\ \E i \in 1 .. NumLines : outcome[calls][i] = "ok"
    /\ \E i \in 1 .. NumLines : outcome[calls][i] = "fail"

\* C2: a candidate that was taken off the queue is marked done however its
\* probe ended; none is left taken, unmarked and held by no worker.
C2_MarkedDoneRegardless ==
    \A k \in Calls : \A i \in Slots :
        dequeued[k][i] > marked[k][i] => Holders(k, i) # {}

\* C3: under fair scheduling, and unless a probe ends in an error other than
\* a connection failure, a call of scan_subdomains that has opened its
\* wordlist returns, and when it returns each of the N lines has been
\* dequeued once and marked done once.
C3_ScanTerminates ==
    /\ (opc = "put") ~> (opc = "returned" \/ SomeDead)
    /\ [](opc = "returned" =>
            \A i \in Slots :
                /\ dequeued[calls][i] = (IF i <= NumLines THEN 1 ELSE 0)
                /\ marked[calls][i] = (IF i <= NumLines THEN 1 ELSE 0))

C3_Witness ==
    /\ opc = "returned"
    /\ calls = 1
    /\ NumLines = 2
    /\ outcome[1][1] = "ok" /\ outcome[1][2] = "fail"

\* C4: the list scan_subdomains returns holds http://<label>.<host> once for
\* each line whose probe succeeded, and nothing else.
C4_ReturnedExactlySuccesses ==
    opc = "returned" =>
        LET r == heap[Last(held)]
        IN  /\ \A i \in 1 .. NumLines :
                Cardinality(Entries(r, calls, i)) =
                    IF outcome[calls][i] = "ok" THEN 1 ELSE 0
            /\ \A j \in 1 .. Len(r) :
                /\ r[j].call = calls
                /\ r[j].slot \in 1 .. NumLines
                /\ r[j].url = HTTP \o Strip(wordfile.lines[r[j].slot])
                                   \o <<".">> \o ScanHost

C4_Witness ==
    /\ opc = "returned"
    /\ NumLines >= 2
    /\ \A i \in 1 .. NumLines : outcome[calls][i] = "ok"
    /\ Len(heap[Last(held)]) = NumLines
    /\ heap[Last(held)][1].slot = 2

\* C5: q.get() hands each queued line to one worker, once: no line is handed
\* out twice, no two workers hold the same line, a line handed out is no
\* longer queued, and at the return every line has been handed out once.
C5_DequeuedOnce ==
    /\ \A k \in Calls : \A i \in Slots :
        /\ dequeued[k][i] <= 1
        /\ Cardinality(Holders(k, i)) <= 1
        /\ Cardinality({j \in 1 .. Len(q[k]) : q[k][j].slot = i}) + dequeued[k][i] <= 1
    /\ opc = "returned" => \A i \in 1 .. NumLines : dequeued[calls][i] = 1

C5_Witness ==
    \E w1, w2 \in Workers :
        /\ w1 # w2
        /\ wpc[w1] = "probe" /\ wpc[w2] = "probe"
        /\ wsub[w1].slot = 1 /\ wsub[w2].slot = 2

\* C6: each call of scan_subdomains has its own queue and its own list: the
\* workers of earlier calls hold nothing, the list returned is a new object
\* that holds outcomes of this call's lines only, and it is empty when no
\* probe of this call succeeded.
C6_FreshPerCall ==
    /\ \A w \in Workers : wpc[w] \in InFlight =>
           CallOf(w) = calls /\ wsub[w].call = calls
    /\ \A i, j \in 1 .. Len(held) : i # j => held[i] # held[j]
    /\ opc = "returned" =>
        LET r == heap[Last(held)]
        IN  /\ \A j \in 1 .. Len(r) : r[j].call = calls
            /\ (\A i \in 1 .. NumLines : outcome[calls][i] # "ok") => r = <<>>

C6_Witness ==
    /\ opc = "returned"
    /\ calls = 2
    /\ Len(held) = 2
    /\ NumLines >= 1
    /\ \A i \in 1 .. NumLines : outcome[2][i] = "fail"
    /\ heap[held[1]] = <<>> /\ heap[held[2]] = <<>>

\* C7: once main() has accepted the target, the normalized target begins
\* with https:// when the argument did and with http:// otherwise.
C7_SchemeAlwaysPresent ==
    (mpc # "start" /\ Matches) =>
        IF StartsWith(args.target, HTTPS)
        THEN StartsWith(target, HTTPS)
        ELSE StartsWith(target, HTTP)

\* C8: for a target that does not match the pattern main() prints one error
\* line and ends: no mode is entered, no scanner is made, no worker is
\* started and nothing is taken from a queue, whatever flags are set.
C8_InvalidTargetAborts ==
    (mpc # "start" /\ ~Matches) =>
        /\ mpc = "exit"
        /\ out \in {<<Line("Invalid URL. Please enter a valid URL.", <<>>)>>,
                    <<Line("Please enter a target URL.", <<>>)>>}
        /\ ran = <<>>
        /\ heap = <<>> /\ calls = 0 /\ opc = "idle"
        /\ \A w \in Workers : wpc[w] = "unstarted"
        /\ \A k \in Calls : \A i \in Slots :
               dequeued[k][i] = 0 /\ outcome[k][i] = "none"

C8_Witness ==
    /\ mpc = "exit"
    /\ ~Matches
    /\ args.target # <<>>
    /\ args.flags = Modes

\* C9: with an unreadable wordlist scan_subdomains raises at the open: no
\* worker is ever started and no probe made, and the sub-scan mode of main()
\* ends having printed the error line and no result line.
C9_UnreadableWordlistFails ==
    ~wordfile.readable =>
        /\ opc \in {"idle", "clear", "fresh", "open", "raised"}
        /\ \A w \in Workers : wpc[w] = "unstarted"
        /\ \A k \in Calls : \A i \in Slots :
               dequeued[k][i] = 0 /\ outcome[k][i] = "none"
        /\ (mpc = "exit" /\ ran = <<"sub_scan">>) =>
               out = <<Line("Performing subdomain scan on", self_Target),
                       Line("An error occurred during subdomain scan", <<>>)>>

C9_Witness ==
    /\ ~wordfile.readable
    /\ mpc = "exit"
    /\ ran = <<"sub_scan">>
    /\ Len(out) = 2

\* C10: a probe under way always ends.
C10_ProbeAlwaysEnds ==
    \A w \in Workers : (wpc[w] = "probe") ~> (wpc[w] # "probe")

\* The URLs of a list, and the links of the fetched page that resolve to a
\* directory of the target's own origin.
UrlsOf(r) == {r[j].url : j \in 1 .. Len(r)}
SameOriginDirectories ==
    {u \in {urljoin(self_target, h) : h \in {response.links[j] : j \in 1 .. Len(response.links)} \ {<<>>}} :
        Origin(u) = Origin(self_target) /\ EndsWithSlash(UrlPath(u))}

\* C11: when the GET of scan_directories ends in a transport error (connection
\* error, timeout, HTTP error status) the call returns, and what it returns
\* is empty, whatever calls were made on the scanner before.
C11_FailsSoftEmpty ==
    (dpc = "returned" /\ response.kind \in ErrorKinds) => heap[Last(held)] = <<>>

\* C12: what scan_directories returns for a fetched page is exactly the page's
\* links that, resolved against the target, are of the target's origin and
\* have a path that ends in '/'.
C12_ExactlySameOriginDirectories ==
    (dpc = "returned" /\ response.kind = "ok") =>
        UrlsOf(heap[Last(held)]) = SameOriginDirectories

\* C13: every worker thread is a daemon thread, so once main() is done (the
\* sub-scan has returned and its result is printed) the interpreter can shut
\* down, with the workers alive and blocked in q.get().
C13_DaemonWorkersAllowExit ==
    /\ \A w \in Workers : wpc[w] # "unstarted" => daemon[w]
    /\ (mpc = "exit" /\ ~exited) => ENABLED ProcessExit

C13_Witness ==
    /\ exited
    /\ ran = <<"sub_scan">>
    /\ NumLines >= 1
    /\ \A i \in 0 .. (NumWorkers - 1) : wpc[WorkerId(1, i)] = "get"

\* C14: whatever the outcomes of the probes of the other lines, a line still
\* on the queue while the caller waits has a live worker of the pool left to
\* take it; with none left it is never dequeued nor probed.
C14_ProbeFailureIsolated ==
    (opc = "join" /\ q[calls] # <<>>) =>
        \E w \in Workers : CallOf(w) = calls /\ wpc[w] # "dead"

\* C15: the result list is touched by one thread at a time: at most one
\* worker is inside the `with list_lock` block, the one inside holds the lock
\* of its call, and none is inside while the calling thread clears or
\* replaces the list, or reads it at the return.
C15_CollectorMutex ==
    /\ Cardinality({w \in Workers : wpc[w] = "append"}) <= 1
    /\ \A w \in Workers : wpc[w] = "append" => list_lock[ScanLock(CallOf(w))] = w
    /\ opc \in {"clear", "fresh", "return", "returned"} =>
           \A w \in Workers : wpc[w] # "append"

C15_Witness ==
    \E w1, w2 \in Workers :
        /\ wpc[w1] = "append"
        /\ wpc[w2] = "lock"
        /\ CallOf(w1) = 2 /\ CallOf(w2) = 2

\* The workers call k has started, and its lines dequeued and not marked done.
Pool(k) == {w \in Workers : CallOf(w) = k /\ wpc[w] # "unstarted"}
RECURSIVE Unmarked(_, _)
Unmarked(k, n) ==
    IF n = 0 THEN 0 ELSE (dequeued[k][n] - marked[k][n]) + Unmarked(k, n - 1)

C17_ModesExclusive ==
    Matches =>
        /\ Len(ran) <= 1
        /\ ran # <<>> => ran[1] \in args.flags /\ ran[1] = Selected
        /\ args.flags = {} => ran = <<>>
        /\ (mpc = "exit" /\ args.flags # {}) => ran = <<Selected>>
        /\ calls = (IF ran = <<"sub_scan">> THEN 1 ELSE 0)
        /\ dcalls = (IF ran = <<"dir_scan">> THEN 1 ELSE 0)
        /\ (ran = <<>> \/ ran[1] \notin {"dir_scan", "sub_scan"}) => heap = <<>>

C17_Witness ==
    /\ mpc = "exit"
    /\ Matches
    /\ args.flags = Modes
    /\ ran = <<"basic_info">>

\* C18: no URL occurs twice in what scan_directories returns.
C18_ReturnedDeduplicated ==
    dpc = "returned" =>
        LET r == heap[Last(held)]
        IN  \A i, j \in 1 .. Len(r) : r[i].url = r[j].url => i = j

\* C19: a worker appends the URL of a line before it marks the line done, so
\* when q.join() has returned no append is pending: every worker alive is
\* blocked in q.get() on the empty queue, and no step of a worker changes a
\* list that a call has returned.
C19_NoAppendAfterReturn ==
    /\ [](/\ \A w \in Workers : wpc[w] \in {"lock", "append"} =>
                  marked[CallOf(w)][wsub[w].slot] = 0
          /\ \A k \in Calls : \A i \in 1 .. NumLines :
                  (k = calls /\ marked[k][i] >= 1 /\ outcome[k][i] = "ok") =>
                      Entries(heap[results], k, i) # {}
          /\ opc \in {"return", "returned"} =>
                  /\ q[calls] = <<>>
                  /\ \A w \in Workers : wpc[w] \in {"unstarted", "get"})
    /\ [][\A i \in 1 .. Len(held) :
              heap'[held[i]] # heap[held[i]] => ~(\E w \in Workers : WorkerAppend(w))]_vars

C19_Witness ==
    /\ opc = "returned"
    /\ Len(heap[Last(held)]) = 2
    /\ \A w \in Pool(calls) : wpc[w] = "get"

\* C20: a call of scan_subdomains leaves the lists that earlier calls (of
\* scan_subdomains or of scan_directories) returned as they were: no step
\* outside scan_directories changes a list a caller holds.
C20_HeldResultUnchanged ==
    [][dpc = "idle" => \A i \in 1 .. Len(held) : heap'[held[i]] = heap[held[i]]]_vars

====
